---- MODULE Spec2Model ----
(***************************************************************************)
(* State-machine model of wgpu_sandbox: the dirty-tracked caches           *)
(* (cache.rs), the camera and scene (scene.rs), the mesh pipeline          *)
(* (pipeline/mesh.rs) and the renderer state with its winit event          *)
(* handlers (lib.rs).                                                      *)
(*                                                                         *)
(* Numbers.  The program computes in f32.  The model computes exactly, on  *)
(* an integer lattice: lengths are integers, angles are whole quarter      *)
(* turns, a field of view is represented by c = 1/tan(fov/2), an aspect    *)
(* ratio by the reduced fraction <<width, height>>.  The literals of the   *)
(* program that are not on the lattice are replaced by lattice points that *)
(* keep their order and their (in)equalities; each is a named definition   *)
(* below with the literal it stands for.                                   *)
(*                                                                         *)
(* Field names.  mesh.rs reads scene.lights, scene.camera.mesh_camera and  *)
(* scene.objects, and lib.rs writes scene.camera.view_proj; scene.rs holds *)
(* them as point_lights.values, camera.value.mesh_camera and               *)
(* objects.values.  The model uses the fields of scene.rs: `lights` is     *)
(* point_lights (Mesh::new sizes the buffer for PointLight) and            *)
(* camera.view_proj is camera.value.mesh_camera.view_proj.                 *)
(*                                                                         *)
(* op, render_result and calls record the operation executed last, what    *)
(* render returned in it and the calls it made on the window, the device,  *)
(* the surface, the queue and the log, in order.                           *)
(***************************************************************************)
EXTENDS Integers, Sequences, FiniteSets, TLC

\* ------------------------------------------------------------------ bounds
\* translation components of the view matrix stay in -MaxCoord..MaxCoord
MaxCoord == 1
\* most mouse deltas buffered between two Scene::update calls
MaxMouse == 1
\* the owner may push/pop this many objects away from the constructed count
MaxLenDrift == 1
\* most mouse deltas buffered between two Scene::update calls of SpecInput
MaxBuffered == 2
\* most slots a Pool grows to, and most entries of its free list
MaxElements == 2
MaxFree == 2

\* ------------------------------------------------------- program constants
\* scene.rs:174-209: Scene::new builds three objects
NumObjects == 3
\* scene.rs:210-217: one point light
NumPointLights == 1
\* scene.rs:218-227: one directional light
NumDirectionalLights == 1
\* lib.rs:459: InitData holds one model (the cube)
NumModels == 1
\* scene.rs:163 and lib.rs:358: fov 0.75, held as c = 1/tan(fov/2)
FovC == 12
\* scene.rs:165 and lib.rs:358: near 0.1
Near == 2
\* scene.rs:166: far 100.0
SceneFar == 4
\* lib.rs:358: far 5.0
ResizeFar == 3
\* scene.rs:169: speed 2.5 (lattice units per unit of delta)
SceneSpeed == 1
\* scene.rs:170: rot_rate 0.4 (quarter turns per unit of mouse delta and time)
SceneRotRate == 1

\* lib.rs:461 and lib.rs:360: the eye position (0.0, 1.2, -3.0)
EyePosition == <<0, 0, -1>>

\* inner sizes <<width, height>> the windowing layer reports: two aspect
\* ratios, and a window minimised in either or both directions
WindowSizes == {<<1, 1>>, <<2, 1>>, <<0, 1>>, <<1, 0>>, <<0, 0>>}
PosWindowSizes == {sz \in WindowSizes : sz[1] > 0 /\ sz[2] > 0}

\* ----------------------------------------------------------- Option<T>
None == <<>>
Some(x) == <<x>>
is_some(o) == o # <<>>
is_none(o) == o = <<>>
unwrap(o) == o[1]

\* ------------------------------------------------- cgmath on the lattice
Abs(x) == IF x < 0 THEN -x ELSE x
Sgn(x) == IF x < 0 THEN -1 ELSE IF x > 0 THEN 1 ELSE 0

RECURSIVE Gcd(_, _)
Gcd(a, b) == IF b = 0 THEN a ELSE Gcd(b, a % b)

\* (w as f32) / (h as f32), h > 0
Ratio(w, h) == LET g == Gcd(w, h) IN <<w \div g, h \div g>>

unit_x == <<1, 0, 0>>
unit_y == <<0, 1, 0>>
unit_z == <<0, 0, 1>>

VAdd(a, b) == <<a[1] + b[1], a[2] + b[2], a[3] + b[3]>>
VScale(k, a) == <<k * a[1], k * a[2], k * a[3]>>
VNeg(a) == VScale(-1, a)
Dot(a, b) == a[1] * b[1] + a[2] * b[2] + a[3] * b[3]
Cross(a, b) == <<a[2] * b[3] - a[3] * b[2],
                 a[3] * b[1] - a[1] * b[3],
                 a[1] * b[2] - a[2] * b[1]>>
\* InnerSpace::normalize, on axis-aligned vectors
Normalize(a) == <<Sgn(a[1]), Sgn(a[2]), Sgn(a[3])>>

\* Matrix4 is column-major: m[c][r]
Identity4 == <<<<1, 0, 0, 0>>, <<0, 1, 0, 0>>, <<0, 0, 1, 0>>, <<0, 0, 0, 1>>>>

MatMul(a, b) ==
    [c \in 1..4 |-> [r \in 1..4 |->
        a[1][r] * b[c][1] + a[2][r] * b[c][2] + a[3][r] * b[c][3] + a[4][r] * b[c][4]]]

from_translation(d) ==
    <<<<1, 0, 0, 0>>, <<0, 1, 0, 0>>, <<0, 0, 1, 0>>, <<d[1], d[2], d[3], 1>>>>

\* cos and sin of k quarter turns
Cos4(k) == LET m == k % 4 IN IF m = 0 THEN 1 ELSE IF m = 2 THEN -1 ELSE 0
Sin4(k) == LET m == k % 4 IN IF m = 1 THEN 1 ELSE IF m = 3 THEN -1 ELSE 0

\* Quaternion::from_axis_angle(axis, Rad(angle)) converted to Matrix4:
\* the rotation by `quarters` quarter turns about the unit vector `axis`
from_axis_angle(axis, quarters) ==
    LET co == Cos4(quarters)
        si == Sin4(quarters)
        \* skew[r][c] of the cross-product matrix of axis
        skew == <<<<0, -axis[3], axis[2]>>,
                  <<axis[3], 0, -axis[1]>>,
                  <<-axis[2], axis[1], 0>>>>
        e(r, c) == (IF r = c THEN co ELSE 0) + si * skew[r][c]
                   + (1 - co) * axis[r] * axis[c]
    IN  <<<<e(1, 1), e(2, 1), e(3, 1), 0>>,
          <<e(1, 2), e(2, 2), e(3, 2), 0>>,
          <<e(1, 3), e(2, 3), e(3, 3), 0>>,
          <<0, 0, 0, 1>>>>

\* Matrix4::look_at_lh(eye, center, up) = look_to_rh(eye, -(center - eye), up)
look_at_lh(eye, center, up) ==
    LET dir == VAdd(center, VNeg(eye))
        f == Normalize(VNeg(dir))
        s == Normalize(Cross(f, up))
        u == Cross(s, f)
    IN  <<<<s[1], u[1], -f[1], 0>>,
          <<s[2], u[2], -f[2], 0>>,
          <<s[3], u[3], -f[3], 0>>,
          <<-Dot(eye, s), -Dot(eye, u), Dot(eye, f), 1>>>>

\* scene.rs:147-155.  fov is held as c = 1/tan(fov/2), aspect as <<w, h>>
perspective_transform(near, far, aspect, fov) ==
    LET c == fov IN
    <<<<(c * aspect[2]) \div aspect[1], 0, 0, 0>>,
      <<0, c, 0, 0>>,
      <<0, 0, far \div (far - near), 1>>,
      <<0, 0, (-(far * near)) \div (far - near), 0>>>>

\* scene.rs:238-243: the upper-left 3x3 block, column by column
extract_rotation(m) ==
    <<<<m[1][1], m[1][2], m[1][3]>>,
      <<m[2][1], m[2][2], m[2][3]>>,
      <<m[3][1], m[3][2], m[3][3]>>>>

\* Matrix3 as Transform: transform_vector(m, v) = m * v
transform_vector(m, v) ==
    <<m[1][1] * v[1] + m[2][1] * v[2] + m[3][1] * v[3],
      m[1][2] * v[1] + m[2][2] * v[2] + m[3][2] * v[3],
      m[1][3] * v[1] + m[2][3] * v[2] + m[3][3] * v[3]>>

\* ------------------------------------------------------------ the state
VARIABLES
    window,          \* Option: the winit window [inner_size, redraw_requested]
    state,           \* App.state: Option<RendererState>
    scene,           \* App.scene: Option<Scene>
    exiting,         \* event_loop.exit() was called
    mouse_movements, \* the caller's buffer handed to Scene::update
    op,              \* the operation executed last [name, arg]
    render_result,   \* what render returned if the last operation called it, else ""
    calls,           \* calls made on wgpu / winit / log by the last operation
    exit_status,     \* Option: the status main ended the process with
    pool,            \* a Pool<T> [elements, free_list]
    allocated        \* the indices allocate returned and nobody deleted since,
                     \* each with the value handed to allocate [index, value]

vars == <<window, state, scene, exiting, mouse_movements, op, render_result,
          calls, exit_status, pool, allocated>>

Call(name, target, arg) == [name |-> name, target |-> target, arg |-> arg]
Op(name, arg) == [name |-> name, arg |-> arg]

\* ------------------------------------------------------------- cache.rs
\* Cache::new
Cache_new(value) == [value |-> value, dirty |-> TRUE]
\* Cache::is_dirty
Cache_is_dirty(cache) == cache.dirty
\* a clear() that forgets to reset the flag
Cache_clear_Noop(cache) == cache
\* Cache::clear
Cache_clear(cache) == [cache EXCEPT !.dirty = FALSE]
\* VecCache::new
VecCache_new(values) == [values |-> values, dirty |-> TRUE]
\* VecCache::is_dirty
VecCache_is_dirty(cache) == cache.dirty
\* VecCache::clear
VecCache_clear(cache) == [cache EXCEPT !.dirty = FALSE]

\* ------------------------------------------------------------- scene.rs
\* Camera::new
Camera_new(fov, aspect, near, far, direction, position, speed, rot_rate) ==
    LET target == VAdd(position, direction)
        view == look_at_lh(position, target, unit_y)
        projection == perspective_transform(near, far, aspect, fov)
    IN  [mesh_camera |-> [position |-> position,
                          view_proj |-> MatMul(projection, view)],
         view |-> view,
         projection |-> projection,
         position |-> position,
         fov |-> fov, aspect |-> aspect, near |-> near, far |-> far,
         speed |-> speed, rot_rate |-> rot_rate]

\* a Camera::update that recomputes the projection but not the uniform
Camera_update_StaleUniform(self, fov, aspect, near, far, speed, rot_rate) ==
    [self EXCEPT
        !.projection = perspective_transform(near, far, aspect, fov),
        !.near = near, !.far = far, !.fov = fov, !.aspect = aspect,
        !.speed = speed, !.rot_rate = rot_rate]

\* Camera::update
Camera_update(self, fov, aspect, near, far, speed, rot_rate) ==
    LET projection == perspective_transform(near, far, aspect, fov)
    IN  [self EXCEPT
            !.projection = projection,
            !.mesh_camera = [position |-> self.position,
                             view_proj |-> MatMul(projection, self.view)],
            !.near = near, !.far = far, !.fov = fov, !.aspect = aspect,
            !.speed = speed, !.rot_rate = rot_rate]

\* Scene::new
Scene_new(aspect, camera_position) ==
    LET direction == Normalize(VNeg(camera_position))
        camera == Camera_new(FovC, aspect, Near, SceneFar, direction,
                             camera_position, SceneSpeed, SceneRotRate)
    IN  [objects |-> VecCache_new([i \in 1..NumObjects |-> i]),
         point_lights |-> VecCache_new([i \in 1..NumPointLights |-> i]),
         directional_lights |-> VecCache_new([i \in 1..NumDirectionalLights |-> i]),
         camera |-> Cache_new(camera)]

\* a check_key that takes a key without an entry for pressed
check_key_MissingPressed(kmap, code) ==
    IF code \in DOMAIN kmap THEN kmap[code] ELSE TRUE

\* Scene::check_key: a key without an entry is not pressed
Keys == {"KeyW", "KeyA", "KeyS", "KeyD"}
check_key(kmap, code) == IF code \in DOMAIN kmap THEN kmap[code] ELSE FALSE

BoolInt(b) == IF b THEN 1 ELSE 0

\* a total that keeps the last buffered delta only
SumMovements_LastOnly(ms) == IF ms = <<>> THEN <<0, 0>> ELSE ms[Len(ms)]

\* Scene::update, the fold that sums the buffered mouse deltas
RECURSIVE SumMovements(_)
SumMovements(ms) ==
    IF ms = <<>> THEN <<0, 0>>
    ELSE LET rest == SumMovements(Tail(ms))
         IN  <<Head(ms)[1] + rest[1], Head(ms)[2] + rest[2]>>

\* an update that moves the camera along the axes of the current view
Scene_update_camera_ViewRelative(cam, kmap, movements, delta) ==
    LET forward_axis == BoolInt(check_key(kmap, "KeyW")) - BoolInt(check_key(kmap, "KeyS"))
        side_axis == BoolInt(check_key(kmap, "KeyD")) - BoolInt(check_key(kmap, "KeyA"))
        displacement == VScale(delta * cam.speed,
                               VAdd(VScale(-forward_axis, unit_z),
                                    VScale(-side_axis, unit_x)))
        total_movement == SumMovements(movements)
        local_rotation == from_axis_angle(unit_x, -cam.rot_rate * total_movement[2] * delta)
        world_y == Normalize(transform_vector(extract_rotation(cam.view), unit_y))
        global_rotation == from_axis_angle(world_y, -cam.rot_rate * total_movement[1] * delta)
        view == MatMul(MatMul(MatMul(local_rotation, global_rotation), cam.view),
                       from_translation(displacement))
    IN  [cam EXCEPT !.view = view,
                    !.mesh_camera.view_proj = MatMul(cam.projection, view)]

\* Scene::update, the camera it leaves behind
Scene_update_camera(cam, kmap, movements, delta) ==
    LET forward_axis == BoolInt(check_key(kmap, "KeyW")) - BoolInt(check_key(kmap, "KeyS"))
        side_axis == BoolInt(check_key(kmap, "KeyD")) - BoolInt(check_key(kmap, "KeyA"))
        displacement == VScale(delta * cam.speed,
                               VAdd(VScale(-forward_axis, unit_z),
                                    VScale(-side_axis, unit_x)))
        total_movement == SumMovements(movements)
        local_rotation == from_axis_angle(unit_x, -cam.rot_rate * total_movement[2] * delta)
        world_y == Normalize(transform_vector(extract_rotation(cam.view), unit_y))
        global_rotation == from_axis_angle(world_y, -cam.rot_rate * total_movement[1] * delta)
        view == MatMul(MatMul(MatMul(from_translation(displacement), local_rotation),
                              global_rotation), cam.view)
    IN  [cam EXCEPT !.view = view,
                    !.mesh_camera.view_proj = MatMul(cam.projection, view)]

\* ------------------------------------------------------ pipeline/mesh.rs
\* Mesh::new: buffers and bind groups are sized from the scene and the models
Mesh_new(n_models, sc) ==
    [lights_buffer |-> Len(sc.point_lights.values),
     light_count |-> Len(sc.point_lights.values),
     object_buffers |-> Len(sc.objects.values),
     uniform_groups |-> Len(sc.objects.values),
     vertex_buffers |-> n_models,
     index_buffers |-> n_models]

Min(a, b) == IF a < b THEN a ELSE b

\* Mesh::update: the queue.write_buffer calls, in order
Mesh_update(mesh, sc) ==
    <<Call("write_buffer", "lights_buffer", <<Len(sc.point_lights.values)>>),
      Call("write_buffer", "camera_buffer", <<>>)>>
    \o [i \in 1..Min(Len(sc.objects.values), mesh.object_buffers) |->
            Call("write_buffer", "object_buffer", <<i>>)]

\* Mesh::draw: the render pass it records, one indexed draw per vertex buffer
RECURSIVE DrawModels(_, _)
DrawModels(i, n) ==
    IF i > n THEN <<>>
    ELSE <<Call("set_vertex_buffer", "render_pass", <<i>>),
           Call("set_index_buffer", "render_pass", <<i>>),
           Call("set_bind_group", "uniform_group", <<i>>),
           Call("set_bind_group", "storage_group", <<>>),
           Call("draw_indexed", "render_pass", <<i>>)>> \o DrawModels(i + 1, n)

Mesh_draw(mesh) ==
    <<Call("begin_render_pass", "encoder", <<>>),
      Call("set_pipeline", "render_pass", <<>>)>>
    \o DrawModels(1, mesh.vertex_buffers)

\* --------------------------------------------------------------- lib.rs
\* what surface.get_current_texture() can return
SurfaceOutcomes == {"Ok", "Timeout", "Outdated", "Lost", "OutOfMemory", "Other"}
\* how RendererState::new can end
InitOutcomes == {"Ok", "create_surface", "request_adapter", "request_device",
                 "FormatError::NotFound"}

Extent(w, h) == [width |-> w, height |-> h]

\* RendererState::new, the Ok result
RendererState_new(win, sc, n_models) ==
    [surface_config |-> Extent(win.inner_size[1], win.inner_size[2]),
     is_surface_configured |-> FALSE,
     depth_texture |-> Extent(win.inner_size[1], win.inner_size[2]),
     mesh_pipeline |-> Mesh_new(n_models, sc)]

\* the matrix RendererState::resize stores in the camera uniform
ResizeViewProj(win) ==
    MatMul(perspective_transform(Near, ResizeFar,
                                 Ratio(win.inner_size[1], win.inner_size[2]), FovC),
           look_at_lh(EyePosition, <<0, 0, 0>>, unit_y))

\* a resize that rebuilds the mesh pipeline's buffers from the scene as it is
ResizeBody_RebuildsPipeline(st, width, height, sc, win) ==
    [state |-> [st EXCEPT !.is_surface_configured = TRUE,
                          !.surface_config = Extent(width, height),
                          !.depth_texture = Extent(width, height),
                          !.mesh_pipeline =
                              IF is_some(sc)
                              THEN Mesh_new(st.mesh_pipeline.vertex_buffers, unwrap(sc))
                              ELSE @],
     scene |-> IF is_some(sc)
               THEN Some([unwrap(sc) EXCEPT
                          !.camera.value.mesh_camera.view_proj = ResizeViewProj(win)])
               ELSE sc,
     calls |-> <<Call("configure", "surface", <<width, height>>),
                 Call("create_texture", "device", <<width, height>>),
                 Call("create_view", "depth_texture", <<>>)>>]

\* a resize that reconfigures the surface and keeps the old depth texture
ResizeBody_StaleDepth(st, width, height, sc, win) ==
    [state |-> [st EXCEPT !.is_surface_configured = TRUE,
                          !.surface_config = Extent(width, height)],
     scene |-> IF is_some(sc)
               THEN Some([unwrap(sc) EXCEPT
                          !.camera.value.mesh_camera.view_proj = ResizeViewProj(win)])
               ELSE sc,
     calls |-> <<Call("configure", "surface", <<width, height>>)>>]

\* what RendererState::resize does once its size test has passed
ResizeBody(st, width, height, sc, win) ==
    [state |-> [st EXCEPT !.is_surface_configured = TRUE,
                          !.surface_config = Extent(width, height),
                          !.depth_texture = Extent(width, height)],
     scene |-> IF is_some(sc)
               THEN Some([unwrap(sc) EXCEPT
                          !.camera.value.mesh_camera.view_proj = ResizeViewProj(win)])
               ELSE sc,
     calls |-> <<Call("configure", "surface", <<width, height>>),
                 Call("create_texture", "device", <<width, height>>),
                 Call("create_view", "depth_texture", <<>>)>>]

\* a resize that tests the width only
RendererState_resize_WidthOnly(st, width, height, sc, win) ==
    IF width > 0
    THEN ResizeBody(st, width, height, sc, win)
    ELSE [state |-> st, scene |-> sc, calls |-> <<>>]

\* RendererState::resize: the renderer state, the scene and the calls it makes
RendererState_resize(st, width, height, sc, win) ==
    IF width > 0 /\ height > 0
    THEN ResizeBody(st, width, height, sc, win)
    ELSE [state |-> st, scene |-> sc, calls |-> <<>>]

\* a render that submits the command buffer before sync has written the buffers
RenderFrame_SubmitBeforeSync(st, sc, outcome) ==
    LET head == <<Call("create_command_encoder", "device", <<>>),
                  Call("get_current_texture", "surface", <<>>)>>
    IN  IF outcome # "Ok"
        THEN [result |-> outcome, calls |-> head]
        ELSE [result |-> "Ok",
              calls |-> head
                        \o <<Call("create_view", "surface_texture", <<>>)>>
                        \o Mesh_draw(st.mesh_pipeline)
                        \o <<Call("finish", "encoder", <<>>),
                             Call("submit", "queue", <<>>)>>
                        \o Mesh_update(st.mesh_pipeline, sc)
                        \o <<Call("present", "surface_texture", <<>>)>>]

\* RendererState::render past the is_surface_configured test: its result and
\* the calls it makes; `outcome` is what get_current_texture returns
RenderFrame(st, sc, outcome) ==
    LET head == <<Call("create_command_encoder", "device", <<>>),
                  Call("get_current_texture", "surface", <<>>)>>
    IN  IF outcome # "Ok"
        THEN [result |-> outcome, calls |-> head]
        ELSE [result |-> "Ok",
              calls |-> head
                        \o <<Call("create_view", "surface_texture", <<>>)>>
                        \o Mesh_update(st.mesh_pipeline, sc)
                        \o Mesh_draw(st.mesh_pipeline)
                        \o <<Call("finish", "encoder", <<>>),
                             Call("submit", "queue", <<>>),
                             Call("present", "surface_texture", <<>>)>>]

\* a render without the is_surface_configured test
RendererState_render_Unguarded(st, sc, outcome) ==
    LET frame == RenderFrame(st, sc, outcome)
    IN  [result |-> frame.result,
         calls |-> <<Call("request_redraw", "window", <<>>)>> \o frame.calls]

\* a render that requests the next redraw only after presenting
RendererState_render_RedrawOnSuccess(st, sc, outcome) ==
    LET frame == RenderFrame(st, sc, outcome)
    IN  IF ~st.is_surface_configured
        THEN [result |-> "Ok", calls |-> <<>>]
        ELSE [result |-> frame.result,
              calls |-> frame.calls
                        \o (IF frame.result = "Ok"
                            THEN <<Call("request_redraw", "window", <<>>)>>
                            ELSE <<>>)]

\* RendererState::render
RendererState_render(st, sc, outcome) ==
    LET head == <<Call("request_redraw", "window", <<>>)>>
        frame == RenderFrame(st, sc, outcome)
    IN  IF ~st.is_surface_configured
        THEN [result |-> "Ok", calls |-> head]
        ELSE [result |-> frame.result, calls |-> head \o frame.calls]

\* a match without the Outdated | Lost arm
RenderResultArm_NoRecovery(result) ==
    IF result = "Ok" THEN "nothing" ELSE "log_error"

\* a match that resizes on every error
RenderResultArm_AllResize(result) ==
    IF result = "Ok" THEN "nothing" ELSE "resize"

\* App::window_event, RedrawRequested: the arm of the match on render's result
RenderResultArm(result) ==
    IF result = "Ok" THEN "nothing"
    ELSE IF result \in {"Outdated", "Lost"} THEN "resize"
    ELSE "log_error"

\* ----------------------------------------------------- allocator/pool.rs
\* Pool::get: the slot's content, None for an index past the end
Pool_get(p, index) ==
    IF index < Len(p.elements) THEN p.elements[index + 1] ELSE None

\* Pool::allocate: the pool afterwards and the index returned
Pool_allocate(p, value) ==
    IF Len(p.free_list) = 0
    THEN [pool |-> [p EXCEPT !.elements = Append(@, Some(value))],
          index |-> Len(p.elements)]
    ELSE [pool |-> [p EXCEPT !.free_list = SubSeq(@, 1, Len(@) - 1)],
          index |-> p.free_list[Len(p.free_list)]]

\* Pool::delete, for an index inside elements (one past the end panics)
Pool_delete(p, index) ==
    [p EXCEPT !.free_list = Append(@, index), !.elements[index + 1] = None]

\* ------------------------------------------------------------ the actions
Init ==
    /\ window = None
    /\ state = None
    /\ scene = None
    /\ exiting = FALSE
    /\ mouse_movements = <<>>
    /\ op = Op("App::new", <<>>)
    /\ render_result = ""
    /\ calls = <<>>
    /\ exit_status = None
    /\ pool = [elements |-> <<>>, free_list |-> <<>>]
    /\ allocated = <<>>

\* App::resumed, create_window fails
ResumedNoWindow ==
    /\ ~exiting /\ is_none(state)
    /\ exiting' = TRUE
    /\ op' = Op("resumed", <<>>)
    /\ UNCHANGED <<exit_status, pool, allocated>>
    /\ calls' = <<Call("create_window", "event_loop", <<>>),
                  Call("error", "log", <<>>),
                  Call("exit", "event_loop", <<>>)>>
    /\ render_result' = ""
    /\ UNCHANGED <<window, state, scene, mouse_movements>>

\* App::resumed, the window is created with inner size w x h
Resumed(w, h, outcome) ==
    /\ ~exiting /\ is_none(state)
    /\ LET win == [inner_size |-> <<w, h>>, redraw_requested |-> TRUE]
           sc == Scene_new(Ratio(w, h), EyePosition)
       IN  IF outcome = "Ok"
           THEN /\ window' = Some(win)
                /\ state' = Some(RendererState_new(win, sc, NumModels))
                /\ scene' = Some(sc)
                /\ exiting' = FALSE
                /\ calls' = <<Call("create_window", "event_loop", <<>>)>>
           ELSE /\ exiting' = TRUE
                /\ calls' = <<Call("create_window", "event_loop", <<>>),
                              Call("error", "log", <<>>),
                              Call("exit", "event_loop", <<>>)>>
                /\ UNCHANGED <<window, state, scene>>
    /\ op' = Op("resumed", <<>>)
    /\ UNCHANGED <<exit_status, pool, allocated>>
    /\ render_result' = ""
    /\ UNCHANGED mouse_movements

\* App::window_event, CloseRequested
CloseRequested ==
    /\ ~exiting
    /\ exiting' = TRUE
    /\ op' = Op("CloseRequested", <<>>)
    /\ UNCHANGED <<exit_status, pool, allocated>>
    /\ calls' = <<Call("exit", "event_loop", <<>>)>>
    /\ render_result' = ""
    /\ UNCHANGED <<window, state, scene, mouse_movements>>

\* App::window_event, RedrawRequested
RedrawRequested(outcome) ==
    /\ ~exiting
    /\ is_some(window) => unwrap(window).redraw_requested
    /\ op' = Op("RedrawRequested", <<>>)
    /\ UNCHANGED <<exit_status, pool, allocated>>
    /\ IF is_none(state) \/ is_none(scene)
       THEN /\ calls' = <<>>
            /\ render_result' = ""
            /\ UNCHANGED <<window, state, scene, exiting>>
       ELSE LET r == RendererState_render(unwrap(state), unwrap(scene), outcome)
                arm == RenderResultArm(r.result)
                win == unwrap(window)
                rs == RendererState_resize(unwrap(state), win.inner_size[1],
                                           win.inner_size[2], scene, win)
            IN  /\ render_result' = r.result
                /\ window' = Some([win EXCEPT !.redraw_requested =
                                       \E i \in 1..Len(r.calls) :
                                           r.calls[i] = Call("request_redraw", "window", <<>>)])
                /\ exiting' = FALSE
                /\ IF arm = "resize"
                   THEN /\ state' = Some(rs.state)
                        /\ scene' = rs.scene
                        /\ calls' = r.calls \o rs.calls
                   ELSE /\ calls' = r.calls \o (IF arm = "log_error"
                                                THEN <<Call("error", "log", <<>>)>>
                                                ELSE <<>>)
                        /\ UNCHANGED <<state, scene>>
    /\ UNCHANGED mouse_movements

\* App::window_event, Resized(new_size): the window's inner size is new_size
Resized(w, h) ==
    /\ ~exiting
    /\ is_some(window)
    /\ op' = Op("Resized", <<w, h>>)
    /\ UNCHANGED <<exit_status, pool, allocated>>
    /\ LET win == [unwrap(window) EXCEPT !.inner_size = <<w, h>>]
       IN  /\ window' = Some(win)
           /\ IF is_none(state)
              THEN /\ calls' = <<>>
                   /\ UNCHANGED <<state, scene>>
              ELSE LET rs == RendererState_resize(unwrap(state), w, h, scene, win)
                   IN  /\ state' = Some(rs.state)
                       /\ scene' = rs.scene
                       /\ calls' = rs.calls
    /\ render_result' = ""
    /\ UNCHANGED <<exiting, mouse_movements>>

\* main: the status the process ends with, from what run_app returned
main_exit_status(run_app_result) == IF run_app_result = "Ok" THEN 0 ELSE 1

\* main: event_loop.exit() was called, run_app returns Ok(()) and main returns
MainReturns ==
    /\ exiting /\ is_none(exit_status)
    /\ exit_status' = Some(main_exit_status("Ok"))
    /\ UNCHANGED <<window, state, scene, exiting, mouse_movements, op,
                   render_result, calls, pool, allocated>>

\* the values stored in a Pool
PoolValues == {"a", "b"}

\* a caller allocates a slot for value and keeps the index
Allocate(value) ==
    /\ Len(pool.free_list) = 0 => Len(pool.elements) < MaxElements
    /\ LET r == Pool_allocate(pool, value)
       IN  /\ pool' = r.pool
           /\ allocated' = Append(allocated, [index |-> r.index, value |-> value])
           /\ op' = Op("Pool::allocate", <<r.index>>)
    /\ UNCHANGED <<window, state, scene, exiting, mouse_movements, render_result,
                   calls, exit_status>>

\* a caller deletes a slot, live or already deleted, and drops the index
Delete(index) ==
    /\ index < Len(pool.elements)
    /\ Len(pool.free_list) < MaxFree
    /\ pool' = Pool_delete(pool, index)
    /\ allocated' = SelectSeq(allocated, LAMBDA h : h.index # index)
    /\ op' = Op("Pool::delete", <<index>>)
    /\ UNCHANGED <<window, state, scene, exiting, mouse_movements, render_result,
                   calls, exit_status>>

\* the names of the scene's caches
VecCacheNames == {"objects", "point_lights", "directional_lights"}
CacheNames == VecCacheNames \cup {"camera"}

\* the scene's owner calls clear() on one of its caches
Clear(c) ==
    /\ ~exiting /\ is_some(scene)
    /\ scene' = Some([unwrap(scene) EXCEPT
                      ![c] = IF c \in VecCacheNames THEN VecCache_clear(@)
                                                    ELSE Cache_clear(@)])
    /\ op' = Op("clear", <<c>>)
    /\ UNCHANGED <<exit_status, pool, allocated>>
    /\ calls' = <<>>
    /\ render_result' = ""
    /\ UNCHANGED <<window, state, exiting, mouse_movements>>

\* the scene's owner marks one of its caches dirty (pub dirty)
MarkDirty(c) ==
    /\ ~exiting /\ is_some(scene)
    /\ scene' = Some([unwrap(scene) EXCEPT ![c].dirty = TRUE])
    /\ op' = Op("mark_dirty", <<c>>)
    /\ UNCHANGED <<exit_status, pool, allocated>>
    /\ calls' = <<>>
    /\ render_result' = ""
    /\ UNCHANGED <<window, state, exiting, mouse_movements>>

\* the scene's owner pushes an object onto objects.values (pub values)
PushObject ==
    /\ ~exiting /\ is_some(scene)
    /\ LET sc == unwrap(scene)
           n == Len(sc.objects.values)
       IN  /\ n < NumObjects + MaxLenDrift
           /\ scene' = Some([sc EXCEPT !.objects.values = Append(@, n + 1),
                                       !.objects.dirty = TRUE])
    /\ op' = Op("push_object", <<>>)
    /\ UNCHANGED <<exit_status, pool, allocated>>
    /\ calls' = <<>>
    /\ render_result' = ""
    /\ UNCHANGED <<window, state, exiting, mouse_movements>>

\* the scene's owner pops an object off objects.values (pub values)
PopObject ==
    /\ ~exiting /\ is_some(scene)
    /\ LET sc == unwrap(scene)
           n == Len(sc.objects.values)
       IN  /\ n > 0 /\ n > NumObjects - MaxLenDrift
           /\ scene' = Some([sc EXCEPT !.objects.values = SubSeq(@, 1, n - 1),
                                       !.objects.dirty = TRUE])
    /\ op' = Op("pop_object", <<>>)
    /\ UNCHANGED <<exit_status, pool, allocated>>
    /\ calls' = <<>>
    /\ render_result' = ""
    /\ UNCHANGED <<window, state, exiting, mouse_movements>>

\* the caller buffers one mouse delta
MouseMotion(d) ==
    /\ ~exiting
    /\ Len(mouse_movements) < MaxMouse
    /\ mouse_movements' = Append(mouse_movements, d)
    /\ op' = Op("mouse_motion", <<>>)
    /\ UNCHANGED <<exit_status, pool, allocated>>
    /\ calls' = <<>>
    /\ render_result' = ""
    /\ UNCHANGED <<window, state, scene, exiting>>

\* the caller buffers one mouse delta, several between two updates
MouseMotionBuffered(d) ==
    /\ ~exiting
    /\ Len(mouse_movements) < MaxBuffered
    /\ mouse_movements' = Append(mouse_movements, d)
    /\ op' = Op("mouse_motion", <<>>)
    /\ UNCHANGED <<exit_status, pool, allocated>>
    /\ calls' = <<>>
    /\ render_result' = ""
    /\ UNCHANGED <<window, state, scene, exiting>>

InRange(view) == \A r \in 1..3 : Abs(view[4][r]) <= MaxCoord

\* a Scene::update that leaves the camera cache's flag as it found it
Scene_update_NoMark(kmap, delta) ==
    /\ ~exiting /\ is_some(scene)
    /\ LET sc == unwrap(scene)
           cam == Scene_update_camera(sc.camera.value, kmap, mouse_movements, delta)
       IN  /\ InRange(cam.view)
           /\ scene' = Some([sc EXCEPT !.camera.value = cam])
    /\ mouse_movements' = <<>>
    /\ op' = Op("Scene::update", <<>>)
    /\ calls' = <<>>
    /\ render_result' = ""
    /\ UNCHANGED <<window, state, exiting, exit_status, pool, allocated>>

\* Scene::update(kmap, mouse_movements, delta)
Scene_update(kmap, delta) ==
    /\ ~exiting /\ is_some(scene)
    /\ LET sc == unwrap(scene)
           cam == Scene_update_camera(sc.camera.value, kmap, mouse_movements, delta)
       IN  /\ InRange(cam.view)
           /\ scene' = Some([sc EXCEPT !.camera.value = cam, !.camera.dirty = TRUE])
    /\ mouse_movements' = <<>>
    /\ op' = Op("Scene::update", <<>>)
    /\ UNCHANGED <<exit_status, pool, allocated>>
    /\ calls' = <<>>
    /\ render_result' = ""
    /\ UNCHANGED <<window, state, exiting>>

\* Camera::update(fov, aspect, near, far, speed, rot_rate) on the scene's camera
CameraUpdate(fov, aspect, near, far, speed, rot_rate) ==
    /\ ~exiting /\ is_some(scene)
    /\ scene' = Some([unwrap(scene) EXCEPT
                      !.camera.value = Camera_update(@, fov, aspect, near, far,
                                                     speed, rot_rate)])
    /\ op' = Op("Camera::update", <<>>)
    /\ UNCHANGED <<exit_status, pool, allocated>>
    /\ calls' = <<>>
    /\ render_result' = ""
    /\ UNCHANGED <<window, state, exiting, mouse_movements>>

\* ----------------------------------------------------- the specifications
\* the caches whose data Mesh::update uploads
UploadedCaches == {"objects", "point_lights", "camera"}
\* key maps handed to Scene::update: no entries; W; S released; W and S;
\* D; A with W released
KMapsUsed == {<<>>,
              [k \in {"KeyW"} |-> TRUE],
              [k \in {"KeyS"} |-> FALSE],
              [k \in {"KeyW", "KeyS"} |-> TRUE],
              [k \in {"KeyD"} |-> TRUE],
              [k \in {"KeyA", "KeyW"} |-> k = "KeyA"]}
\* every key map over W, A, S, D: absent, pressed or released
KMaps == UNION {[ks -> BOOLEAN] : ks \in SUBSET Keys}
\* mouse deltas
MouseDeltas == {<<1, 0>>, <<0, 1>>}
Aspects == {Ratio(sz[1], sz[2]) : sz \in PosWindowSizes}

\* the frame loop with the owner's cache operations
Next ==
    \/ ResumedNoWindow
    \/ \E sz \in PosWindowSizes, o \in InitOutcomes : Resumed(sz[1], sz[2], o)
    \/ CloseRequested
    \/ \E o \in SurfaceOutcomes : RedrawRequested(o)
    \/ \E sz \in WindowSizes : Resized(sz[1], sz[2])
    \/ \E c \in UploadedCaches : Clear(c)
    \/ \E c \in UploadedCaches : MarkDirty(c)
    \/ PushObject
    \/ PopObject
    \/ Scene_update(<<>>, 1)
    \/ MainReturns

Spec == Init /\ [][Next]_vars

\* the camera under keyboard and mouse input and Camera::update
NextCamera ==
    \/ Resumed(1, 1, "Ok")
    \/ \E d \in MouseDeltas : MouseMotion(d)
    \/ \E kmap \in KMapsUsed : Scene_update(kmap, 1)
    \/ \E a \in Aspects :
            CameraUpdate(FovC, a, Near, SceneFar, SceneSpeed, SceneRotRate)

SpecCamera == Init /\ [][NextCamera]_vars

\* key maps of SpecInput: no entries; W
KMapsInput == {<<>>, [k \in {"KeyW"} |-> TRUE]}
\* frame times handed to Scene::update
Deltas == {1, 2}

\* Scene::update fed by a buffer of several mouse deltas and two frame times
NextInput ==
    \/ Resumed(1, 1, "Ok")
    \/ \E d \in MouseDeltas : MouseMotionBuffered(d)
    \/ \E kmap \in KMapsInput, delta \in Deltas : Scene_update(kmap, delta)

SpecInput == Init /\ [][NextInput]_vars

\* Scene::update under every key map, between resizes and camera uploads
NextKeys ==
    \/ Resumed(1, 1, "Ok")
    \/ \E sz \in PosWindowSizes : Resized(sz[1], sz[2])
    \/ \E c \in UploadedCaches : Clear(c)
    \/ \E kmap \in KMaps : Scene_update(kmap, 1)

SpecKeys == Init /\ [][NextKeys]_vars

\* a Pool under allocate and delete
NextPool ==
    \/ \E v \in PoolValues : Allocate(v)
    \/ \E i \in 0..(MaxElements - 1) : Delete(i)

SpecPool == Init /\ [][NextPool]_vars

\* ------------------------------------------------------------ the claims
HasCall(cs, name, target) ==
    \E i \in 1..Len(cs) : cs[i].name = name /\ cs[i].target = target
HasCallArg(cs, name, target, arg) ==
    \E i \in 1..Len(cs) : cs[i] = Call(name, target, arg)
CallNames(cs) == {cs[i].name : i \in 1..Len(cs)}

\* the last operation was a RedrawRequested that reached RendererState::render
Rendered == op.name = "RedrawRequested" /\ is_some(state) /\ is_some(scene)
\* ... and render ran Mesh::update (sync)
Synced == Rendered /\ HasCall(calls, "write_buffer", "camera_buffer")

\* C1: after sync has run for a frame no uploaded cache is dirty (each was
\* cleared after its write was issued).
C1_SyncLeavesClean ==
    Synced => /\ ~VecCache_is_dirty(unwrap(scene).point_lights)
              /\ ~Cache_is_dirty(unwrap(scene).camera)
              /\ ~VecCache_is_dirty(unwrap(scene).objects)

\* C2: sync issues a buffer write for the lights, the camera or the objects
\* only if that cache is dirty when sync is called (render leaves the flags
\* alone, so the flags after the frame are the flags at the call).
C2_WritesOnlyDirty ==
    Rendered =>
        /\ HasCall(calls, "write_buffer", "lights_buffer")
              => VecCache_is_dirty(unwrap(scene).point_lights)
        /\ HasCall(calls, "write_buffer", "camera_buffer")
              => Cache_is_dirty(unwrap(scene).camera)
        /\ HasCall(calls, "write_buffer", "object_buffer")
              => VecCache_is_dirty(unwrap(scene).objects)

\* C3: a sync of a scene whose object count differs from the count the mesh
\* was built for is rejected: the frame writes no object buffer and is not
\* submitted as a success.
C3_MismatchRejected ==
    (Rendered /\ Len(unwrap(scene).objects.values)
                    # unwrap(state).mesh_pipeline.object_buffers)
        => /\ ~HasCall(calls, "write_buffer", "object_buffer")
           /\ ~HasCall(calls, "submit", "queue")

IsDirty(sc, c) == IF c \in VecCacheNames THEN VecCache_is_dirty(sc[c])
                                         ELSE Cache_is_dirty(sc[c])
Wrapped(sc, c) == IF c \in VecCacheNames THEN sc[c].values ELSE sc[c].value
MarkingOps == {"mark_dirty", "push_object", "pop_object", "Scene::update"}

\* C4: a freshly constructed cache is dirty; clear() makes it clean and leaves
\* the wrapped value and the other caches alone; a clean cache becomes dirty
\* only by an operation of its owner that marks it.
C4_DirtyLifecycle ==
    [][ /\ (is_none(scene) /\ is_some(scene'))
            => \A c \in CacheNames : IsDirty(unwrap(scene'), c)
        /\ (is_some(scene) /\ op'.name = "clear")
            => LET c == op'.arg[1]
               IN  /\ ~IsDirty(unwrap(scene'), c)
                   /\ Wrapped(unwrap(scene'), c) = Wrapped(unwrap(scene), c)
                   /\ \A d \in CacheNames \ {c} : unwrap(scene')[d] = unwrap(scene)[d]
        /\ is_some(scene)
            => \A c \in CacheNames :
                 (~IsDirty(unwrap(scene), c) /\ IsDirty(unwrap(scene'), c))
                    => op'.name \in MarkingOps
      ]_vars

C4_Witness ==
    /\ is_some(scene) /\ op.name = "clear" /\ op.arg[1] = "camera"
    /\ ~Cache_is_dirty(unwrap(scene).camera)

\* C5: after Camera::new, Camera::update and Scene::update the uniform's
\* view_proj is projection x view of the camera.
C5_UniformConsistent ==
    (is_some(scene) /\ op.name \in {"resumed", "Camera::update", "Scene::update"})
        => LET cam == unwrap(scene).camera.value
           IN  cam.mesh_camera.view_proj = MatMul(cam.projection, cam.view)

C5_Witness ==
    /\ is_some(scene) /\ op.name = "Scene::update"
    /\ LET cam == unwrap(scene).camera.value
       IN  /\ cam.view # look_at_lh(EyePosition, <<0, 0, 0>>, unit_y)
           /\ cam.aspect # <<1, 1>>
           /\ extract_rotation(cam.view) # extract_rotation(Identity4)

\* C6: a resize with a zero width or height changes neither the renderer
\* state (is_surface_configured, surface configuration, depth image) nor the
\* scene and configures nothing; a resize with positive width and height
\* sets is_surface_configured and stores the size.
C6_ZeroResizeNoOp ==
    [][ (is_some(state) /\ op'.name = "Resized")
            => IF op'.arg[1] = 0 \/ op'.arg[2] = 0
               THEN /\ state' = state
                    /\ scene' = scene
                    /\ calls' = <<>>
               ELSE /\ unwrap(state').is_surface_configured
                    /\ unwrap(state').surface_config = Extent(op'.arg[1], op'.arg[2])
                    /\ HasCallArg(calls', "configure", "surface", op'.arg)
      ]_vars

C6_Witness ==
    /\ is_some(state) /\ op.name = "Resized" /\ op.arg[2] = 0 /\ op.arg[1] > 0
    /\ unwrap(state).is_surface_configured
    /\ unwrap(state).surface_config = Extent(2, 1)

SurfaceLost == Rendered /\ render_result \in {"Outdated", "Lost"}
SkippedCalls == {"create_view", "write_buffer", "begin_render_pass", "draw_indexed",
                 "finish", "submit", "present"}

\* C7 as stated: on Outdated or Lost the handler does not exit or log, skips
\* the rest of the frame, and reconfigures the surface and recreates the
\* depth image at the current window size.
C7_AlwaysReconfigures ==
    SurfaceLost =>
        /\ ~exiting
        /\ ~HasCall(calls, "error", "log")
        /\ CallNames(calls) \cap {"write_buffer", "submit", "present"} = {}
        /\ HasCallArg(calls, "configure", "surface", unwrap(window).inner_size)
        /\ HasCallArg(calls, "create_texture", "device", unwrap(window).inner_size)

\* C7, amended: on Outdated or Lost the handler does not exit or log and
\* skips the rest of the frame; it reconfigures the surface and recreates the
\* depth image at the current window size when that size has positive width
\* and height, and reconfigures nothing when it has not; another redraw is
\* requested and a render that then acquires an image submits and presents.
C7_Recovery ==
    SurfaceLost =>
        LET sz == unwrap(window).inner_size IN
        /\ ~exiting
        /\ ~HasCall(calls, "error", "log")
        /\ CallNames(calls) \cap SkippedCalls
              = IF sz[1] > 0 /\ sz[2] > 0 THEN {"create_view"} ELSE {}
        /\ IF sz[1] > 0 /\ sz[2] > 0
           THEN /\ HasCallArg(calls, "configure", "surface", sz)
                /\ HasCallArg(calls, "create_texture", "device", sz)
                /\ unwrap(state).surface_config = Extent(sz[1], sz[2])
                /\ unwrap(state).depth_texture = Extent(sz[1], sz[2])
           ELSE CallNames(calls) \cap {"configure", "create_texture"} = {}
        /\ unwrap(window).redraw_requested
        /\ ENABLED (/\ RedrawRequested("Ok")
                    /\ render_result' = "Ok"
                    /\ HasCall(calls', "submit", "queue")
                    /\ HasCall(calls', "present", "surface_texture"))

C7_Witness ==
    /\ SurfaceLost /\ render_result = "Outdated"
    /\ HasCallArg(calls, "configure", "surface", <<2, 1>>)

\* C8: a Timeout or OutOfMemory from the frame is fatal: the event loop is
\* told to exit, so no later frame is rendered.
C8_FatalExits ==
    (Rendered /\ render_result \in {"Timeout", "OutOfMemory"}) => exiting

\* C9: on any other backend error the error is logged, the frame is dropped
\* (nothing written, submitted, presented or reconfigured), the renderer
\* state and the scene are unchanged, and the loop goes on.
C9_OtherErrorDropsFrame ==
    [][ (is_some(state) /\ is_some(scene)
         /\ op'.name = "RedrawRequested" /\ render_result' = "Other")
            => /\ HasCall(calls', "error", "log")
               /\ CallNames(calls') \cap (SkippedCalls \cup {"configure", "create_texture"}) = {}
               /\ state' = state
               /\ scene' = scene
               /\ ~exiting'
               /\ unwrap(window').redraw_requested
      ]_vars

C9_Witness ==
    /\ Rendered /\ render_result = "Other"
    /\ HasCall(calls, "error", "log")
    /\ unwrap(window).inner_size = <<2, 1>>
    /\ unwrap(scene).camera.value.mesh_camera.view_proj # ResizeViewProj(unwrap(window))

AcquireCalls == {"create_command_encoder", "get_current_texture"}

\* C10: while the surface is not configured a render returns Ok and neither
\* acquires an image nor writes, records, submits or presents anything.
C10_UnconfiguredNoOp ==
    (Rendered /\ ~unwrap(state).is_surface_configured)
        => /\ render_result = "Ok"
           /\ CallNames(calls) \cap (AcquireCalls \cup SkippedCalls) = {}
           /\ ~HasCall(calls, "error", "log")

C10_Witness ==
    /\ Rendered /\ ~unwrap(state).is_surface_configured
    /\ render_result = "Ok"
    /\ unwrap(window).inner_size = <<0, 0>>

\* the positions in a call sequence of the calls with a given name
CallIndices(cs, name) == {i \in 1..Len(cs) : cs[i].name = name}
\* every call named a comes before every call named b
AllBefore(cs, a, b) ==
    \A i \in CallIndices(cs, a), j \in CallIndices(cs, b) : i < j

\* C11: in every tick that draws, sync's buffer writes come before the image
\* is acquired, the acquisition before the recording of the draws, and the
\* recording before the submission and the presentation
C11_TickOrder ==
    Synced =>
        /\ AllBefore(calls, "write_buffer", "get_current_texture")
        /\ AllBefore(calls, "get_current_texture", "begin_render_pass")
        /\ AllBefore(calls, "draw_indexed", "submit")
        /\ AllBefore(calls, "submit", "present")

\* C12: within a frame every buffer write made by sync is on the queue before
\* the command buffer holding the draws is submitted, the draws are recorded
\* and the encoder finished before the submission, and the image is presented
\* only after the submission
C12_WritesBeforeSubmit ==
    Rendered =>
        /\ AllBefore(calls, "write_buffer", "submit")
        /\ AllBefore(calls, "draw_indexed", "finish")
        /\ AllBefore(calls, "finish", "submit")
        /\ AllBefore(calls, "submit", "present")
        /\ Cardinality(CallIndices(calls, "present"))
               = Cardinality(CallIndices(calls, "submit"))
        /\ Synced => Cardinality(CallIndices(calls, "submit")) = 1
C12_Witness ==
    /\ Synced
    /\ HasCall(calls, "write_buffer", "object_buffer")
    /\ HasCall(calls, "draw_indexed", "render_pass")
    /\ HasCall(calls, "present", "surface_texture")

\* the sum of coordinate k over the first n buffered deltas
RECURSIVE SumAxis(_, _, _)
SumAxis(ms, k, n) == IF n = 0 THEN 0 ELSE SumAxis(ms, k, n - 1) + ms[n][k]
\* the rotation a Scene::update with mouse total <<dx, dy>> applies to cam
RotationFor(cam, dx, dy, delta) ==
    LET world_y == Normalize(transform_vector(extract_rotation(cam.view), unit_y))
    IN  MatMul(from_axis_angle(unit_x, -(cam.rot_rate * dy * delta)),
               from_axis_angle(world_y, -(cam.rot_rate * dx * delta)))

\* C13: one Scene::update rotates the view by the sum of all buffered mouse
\* deltas and leaves the buffer empty; an update that finds the buffer empty
\* applies no rotation, and with no key pressed leaves the view as it was
C13_MouseSummed ==
    [][\A kmap \in KMapsInput, delta \in Deltas :
        (op'.name = "Scene::update" /\ Scene_update(kmap, delta)) =>
            LET cam == unwrap(scene).camera.value
                n == Len(mouse_movements)
                dx == SumAxis(mouse_movements, 1, n)
                dy == SumAxis(mouse_movements, 2, n)
                view2 == unwrap(scene').camera.value.view
            IN  /\ mouse_movements' = <<>>
                /\ extract_rotation(view2)
                       = extract_rotation(MatMul(RotationFor(cam, dx, dy, delta),
                                                 cam.view))
                /\ n = 0 => extract_rotation(view2) = extract_rotation(cam.view)
                /\ (n = 0 /\ kmap = <<>>) => view2 = cam.view]_vars
\* an update has drained the buffer and left the view pitched and yawed, the
\* rotation of a summed delta <<1, 1>>
C13_Witness ==
    /\ op.name = "Scene::update"
    /\ mouse_movements = <<>>
    /\ LET cam0 == Scene_new(<<1, 1>>, EyePosition).camera.value
       IN  extract_rotation(unwrap(scene).camera.value.view)
              = extract_rotation(MatMul(RotationFor(cam0, 1, 1, 1), cam0.view))

\* C14: a resize to positive dimensions with a live scene sets the camera's
\* aspect to width / height and re-derives the projection from the camera's
\* own fov, near and far, leaving the view alone, so that afterwards the
\* uniform's view_proj is the new projection times the current view
C14_ResizeRederivesProjection ==
    (/\ op.name = "Resized" /\ op.arg[1] > 0 /\ op.arg[2] > 0
     /\ is_some(state) /\ is_some(scene)) =>
        LET cam == unwrap(scene).camera.value
            aspect == Ratio(op.arg[1], op.arg[2])
        IN  /\ cam.aspect = aspect
            /\ cam.projection
                   = perspective_transform(cam.near, cam.far, aspect, cam.fov)
            /\ cam.mesh_camera.view_proj = MatMul(cam.projection, cam.view)

\* C15: when the renderer cannot be initialised at start-up, no renderer state
\* is stored, no frame is rendered, the loop stops, and the process ends with
\* a non-zero exit status
C15_InitFailureExitsNonZero ==
    (op.name = "resumed" /\ HasCall(calls, "error", "log")) =>
        /\ is_none(state) /\ is_none(scene)
        /\ ~HasCall(calls, "present", "surface_texture")
        /\ exiting
        /\ is_some(exit_status) => unwrap(exit_status) # 0

\* key `code` has an entry in kmap and the entry says pressed
Pressed(kmap, code) == code \in DOMAIN kmap /\ kmap[code]
\* W minus S and D minus A, read off the key map
ForwardOf(kmap) ==
    (IF Pressed(kmap, "KeyW") THEN 1 ELSE 0) - (IF Pressed(kmap, "KeyS") THEN 1 ELSE 0)
SideOf(kmap) ==
    (IF Pressed(kmap, "KeyD") THEN 1 ELSE 0) - (IF Pressed(kmap, "KeyA") THEN 1 ELSE 0)

\* C16: Scene::update is defined for every key map over W, A, S, D, entries
\* missing or present; with an empty mouse buffer and frame time 1 it moves
\* the view's translation by -speed * (D - A) along x and -speed * (W - S)
\* along z, a missing entry counting as not pressed, so both keys of an axis
\* together give no displacement on that axis
C16_AxesFromKeys ==
    (is_some(scene) /\ ~exiting /\ mouse_movements = <<>>) =>
        \A kmap \in KMaps :
            LET cam == unwrap(scene).camera.value
                t == cam.view[4]
                target == <<t[1] - cam.speed * SideOf(kmap), t[2],
                            t[3] - cam.speed * ForwardOf(kmap), 1>>
                updated == Scene_update_camera(cam, kmap, mouse_movements, 1)
            IN  /\ ForwardOf(kmap) \in -1..1 /\ SideOf(kmap) \in -1..1
                /\ updated.view[4] = target
                /\ extract_rotation(updated.view) = extract_rotation(cam.view)
                /\ (Pressed(kmap, "KeyW") /\ Pressed(kmap, "KeyS")) => target[3] = t[3]
                /\ (Pressed(kmap, "KeyA") /\ Pressed(kmap, "KeyD")) => target[1] = t[1]
\* an update has moved the camera sideways and another one forward
C16_Witness ==
    /\ op.name = "Scene::update"
    /\ LET t0 == Scene_new(<<1, 1>>, EyePosition).camera.value.view[4]
           t == unwrap(scene).camera.value.view[4]
       IN  t[1] = t0[1] - SceneSpeed /\ t[3] = t0[3] - SceneSpeed

\* the key map with W pressed and nothing else: forward_axis = 1, side_axis = 0
WOnly == [k \in {"KeyW"} |-> TRUE]
\* the displacement a step from camera cam to view2 applied after rotating by
\* the mouse total <<dx, dy>>: the new translation minus the rotated old one
DisplacementOf(cam, view2, dx, dy, delta) ==
    LET rotated == MatMul(RotationFor(cam, dx, dy, delta), cam.view)
    IN  <<view2[4][1] - rotated[4][1], view2[4][2] - rotated[4][2],
          view2[4][3] - rotated[4][3]>>

\* C17: with W alone pressed the displacement an update applies has magnitude
\* delta * speed whatever the camera's orientation, and is the same vector
\* -delta * speed * unit_z whatever the current view matrix
C17_ForwardStep ==
    [][\A delta \in Deltas :
        (op'.name = "Scene::update" /\ Scene_update(WOnly, delta)) =>
            LET cam == unwrap(scene).camera.value
                n == Len(mouse_movements)
                d == DisplacementOf(cam, unwrap(scene').camera.value.view,
                                    SumAxis(mouse_movements, 1, n),
                                    SumAxis(mouse_movements, 2, n), delta)
            IN  /\ Dot(d, d) = (delta * cam.speed) * (delta * cam.speed)
                /\ d = <<0, 0, -(delta * cam.speed)>>]_vars
\* the camera was yawed a quarter turn by one update and moved forward by the
\* next
C17_Witness ==
    /\ op.name = "Scene::update"
    /\ LET cam0 == Scene_new(<<1, 1>>, EyePosition).camera.value
           yawed == MatMul(RotationFor(cam0, 1, 0, 1), cam0.view)
       IN  unwrap(scene).camera.value.view
              = MatMul(from_translation(<<0, 0, -SceneSpeed>>), yawed)

IsDraw(c) == c.name = "draw_indexed"
IsObjectBinding(c) == c.name = "set_bind_group" /\ c.target = "uniform_group"
IsLightsBinding(c) == c.name = "set_bind_group" /\ c.target = "storage_group"

\* C18: a frame's pass holds exactly one indexed draw per object the resource
\* set was built for, in object order, each after binding that object's own
\* binding set and the shared lights set
C18_DrawPerObject ==
    Synced =>
        LET n == unwrap(state).mesh_pipeline.object_buffers
        IN  /\ SelectSeq(calls, IsDraw)
                   = [i \in 1..n |-> Call("draw_indexed", "render_pass", <<i>>)]
            /\ SelectSeq(calls, IsObjectBinding)
                   = [i \in 1..n |-> Call("set_bind_group", "uniform_group", <<i>>)]
            /\ Len(SelectSeq(calls, IsLightsBinding)) = n

\* C19: after any Scene::update, whatever the keys, also with none pressed and
\* nothing buffered and a camera cache that was clean, the camera cache is
\* dirty, and a frame drawn next writes the camera buffer
C19_UpdateMarksCameraDirty ==
    op.name = "Scene::update" =>
        /\ Cache_is_dirty(unwrap(scene).camera)
        /\ unwrap(state).is_surface_configured =>
               ENABLED (/\ RedrawRequested("Ok")
                        /\ HasCall(calls', "write_buffer", "camera_buffer"))
\* an update ran on a configured renderer after the owner had cleared caches
C19_Witness ==
    /\ op.name = "Scene::update"
    /\ unwrap(state).is_surface_configured
    /\ Cache_is_dirty(unwrap(scene).camera)
    /\ ~VecCache_is_dirty(unwrap(scene).objects)
    /\ unwrap(scene).camera.value.view
          # Scene_new(<<1, 1>>, EyePosition).camera.value.view

\* the world position of the eye a view matrix stands at: -R^T t
EyeOf(view) ==
    LET t == <<view[4][1], view[4][2], view[4][3]>>
    IN  <<-Dot(<<view[1][1], view[1][2], view[1][3]>>, t),
          -Dot(<<view[2][1], view[2][2], view[2][3]>>, t),
          -Dot(<<view[3][1], view[3][2], view[3][3]>>, t)>>

\* C20: once a Scene::update has moved the camera away from where it was
\* constructed, the uniform's position field and the camera's position are
\* the position the updated view stands at, not the construction position
C20_PositionFollowsView ==
    (/\ op.name = "Scene::update"
     /\ EyeOf(unwrap(scene).camera.value.view) # EyePosition) =>
        LET cam == unwrap(scene).camera.value
        IN  /\ cam.mesh_camera.position = EyeOf(cam.view)
            /\ cam.position = EyeOf(cam.view)

\* the operations of the frame loop: Scene::update, render (sync and draw)
\* and resize
FrameOps == {"Scene::update", "RedrawRequested", "Resized"}
\* the numbers of objects and lights of a scene
SceneCounts(sc) ==
    <<Len(sc.objects.values), Len(sc.point_lights.values),
      Len(sc.directional_lights.values)>>
\* the capacities a mesh pipeline was built with: per-object buffers and
\* binding sets, the light buffer's elements, the shader's light count
PipelineCounts(mesh) ==
    <<mesh.object_buffers, mesh.uniform_groups, mesh.lights_buffer, mesh.light_count>>

\* C21: Scene::update, sync, draw, resize and render leave the scene's numbers
\* of objects and lights as they were, and the pipeline's per-object buffers,
\* per-object binding sets, light buffer capacity and light-count constant
\* always equal the counts the scene was constructed with
C21_CountsFixed ==
    [][(is_some(state') /\ is_some(scene')) =>
        /\ PipelineCounts(unwrap(state').mesh_pipeline)
               = <<NumObjects, NumObjects, NumPointLights, NumPointLights>>
        /\ (op'.name \in FrameOps /\ is_some(scene)) =>
               SceneCounts(unwrap(scene')) = SceneCounts(unwrap(scene))
        /\ op'.name = "resumed" =>
               SceneCounts(unwrap(scene'))
                  = <<NumObjects, NumPointLights, NumDirectionalLights>>]_vars
\* a frame was drawn after a lost surface was recovered by a resize, with the
\* scene and the pipeline at their construction counts
C21_Witness ==
    /\ Synced
    /\ unwrap(state).surface_config = Extent(2, 1)
    /\ SceneCounts(unwrap(scene)) = <<NumObjects, NumPointLights, NumDirectionalLights>>
    /\ PipelineCounts(unwrap(state).mesh_pipeline)
          = <<NumObjects, NumObjects, NumPointLights, NumPointLights>>

\* the depth texture has the surface configuration's size, and a configured
\* surface has no zero dimension
DepthMatchesSurface(st) ==
    /\ st.depth_texture = st.surface_config
    /\ st.is_surface_configured =>
           (st.surface_config.width > 0 /\ st.surface_config.height > 0)

\* C22: in every renderer state the depth image's width and height are the
\* surface configuration's, a configured surface has non-zero dimensions,
\* and is_surface_configured never goes back from true to false
C22_DepthTracksSurface ==
    [][is_some(state') =>
        /\ DepthMatchesSurface(unwrap(state'))
        /\ (is_some(state) /\ unwrap(state).is_surface_configured) =>
               unwrap(state').is_surface_configured]_vars
\* a configured renderer was resized to another size, and a zero-size resize
\* then left it configured at that size
C22_Witness ==
    /\ op = Op("Resized", <<0, 1>>)
    /\ unwrap(state).is_surface_configured
    /\ unwrap(state).surface_config = Extent(2, 1)
    /\ unwrap(state).depth_texture = Extent(2, 1)

\* C23: every render asks for the next redraw as its first step, so whatever
\* the frame's outcome (skipped, any acquisition error, drawn) a redraw is
\* pending afterwards, which is all the next RedrawRequested waits for; with
\* a live renderer the loop only stops on a close request
C23_RedrawAlwaysRequested ==
    /\ Rendered =>
           /\ calls # <<>> /\ calls[1] = Call("request_redraw", "window", <<>>)
           /\ ~exiting
    /\ (is_some(state) /\ ~exiting) =>
           /\ is_some(window) /\ unwrap(window).redraw_requested
    /\ (is_some(state) /\ exiting) => op.name = "CloseRequested"
\* a frame whose acquisition timed out, with the next redraw pending
C23_Witness ==
    /\ Rendered /\ render_result = "Timeout"
    /\ unwrap(window).redraw_requested
    /\ calls[1] = Call("request_redraw", "window", <<>>)

\* C24: every index an allocate(v) returned and nobody deleted since is live
\* and holds v, also when it came off the free list, and no two such
\* allocations share an index, also after an index was deleted twice
C24_LiveSlotsHoldValues ==
    /\ \A i \in 1..Len(allocated) :
           Pool_get(pool, allocated[i].index) = Some(allocated[i].value)
    /\ \A i, j \in 1..Len(allocated) :
           i # j => allocated[i].index # allocated[j].index

====
